---- MODULE Spec2Model ----
(***************************************************************************)
(* Amazon Maestro pitching automation (src/app.py): the ISRC validator,    *)
(* the business-rule normaliser, the extraction orchestrator and the       *)
(* Streamlit review form with its script generation.                       *)
(*                                                                         *)
(* Strings are sequences of one-character strings, so that strip, lower,   *)
(* upper, replace, substring search and the regular expression are         *)
(* computed character by character.  Python's None is NULL.                *)
(***************************************************************************)
EXTENDS Integers, Sequences, FiniteSets, TLC

VARIABLES
    \* --- session of the Streamlit app ---
    parsed_data,       \* st.session_state.parsed_data
    generated_script,  \* st.session_state.generated_script, or Absent
    raw_text,          \* the text area outside the form
    wdefault,          \* value= each form widget was created with in the last run
    wvalue,            \* the server's value of each form widget after the last run
    draft,             \* what the browser shows in each form field (unsent edits)
    submit_disabled,   \* disabled= of the form_submit_button as last rendered
    last,              \* what the last script run did (observation only)
    runs,              \* script runs so far
    \* --- one call of apply_business_logic, then a second on its result ---
    data, once, twice,
    \* --- one call of validate_isrc ---
    isrc_in, isrc_out

uiVars   == <<parsed_data, generated_script, raw_text, wdefault, wvalue, draft,
              submit_disabled, last, runs>>
normVars == <<data, once, twice>>
isrcVars == <<isrc_in, isrc_out>>
vars     == <<uiVars, normVars, isrcVars>>

-----------------------------------------------------------------------------
(* Python values *)

NULL    == <<"None">>       \* None: no string has a many-character element
Absent  == <<"absent">>     \* a key that is not in the dict / session state
Pending == <<>>             \* a call not made yet; <<r>> once it returned r

\* not x, for x a string or None
Falsy(x) == x = NULL \/ x = <<>>

LowerAZ == <<"a","b","c","d","e","f","g","h","i","j","k","l","m",
             "n","o","p","q","r","s","t","u","v","w","x","y","z">>
UpperAZ == <<"A","B","C","D","E","F","G","H","I","J","K","L","M",
             "N","O","P","Q","R","S","T","U","V","W","X","Y","Z">>
Digit09 == {"0","1","2","3","4","5","6","7","8","9"}
Whitespace == {" ", "\t", "\n", "\r"}

Range(f) == {f[i] : i \in DOMAIN f}

UpperChar(c) ==
    IF \E i \in DOMAIN LowerAZ : LowerAZ[i] = c
    THEN UpperAZ[CHOOSE i \in DOMAIN LowerAZ : LowerAZ[i] = c]
    ELSE c

LowerChar(c) ==
    IF \E i \in DOMAIN UpperAZ : UpperAZ[i] = c
    THEN LowerAZ[CHOOSE i \in DOMAIN UpperAZ : UpperAZ[i] = c]
    ELSE c

\* str.upper() and str.lower()
str_upper(s) == [i \in 1..Len(s) |-> UpperChar(s[i])]
str_lower(s) == [i \in 1..Len(s) |-> LowerChar(s[i])]

\* s.replace("-", "")
NotHyphen(c) == c # "-"
replace_hyphens(s) == SelectSeq(s, NotHyphen)

\* str.strip(): leading and trailing whitespace removed
str_strip(s) ==
    LET keep == {i \in 1..Len(s) : s[i] \notin Whitespace}
    IN  IF keep = {} THEN <<>>
        ELSE LET lo == CHOOSE i \in keep : \A j \in keep : i <= j
                 hi == CHOOSE i \in keep : \A j \in keep : j <= i
             IN  SubSeq(s, lo, hi)

\* sub in s
Contains(sub, s) ==
    \E i \in 0..(Len(s) - Len(sub)) : SubSeq(s, i + 1, i + Len(sub)) = sub

-----------------------------------------------------------------------------
(* dicts: functions from keys to values *)

EmptyDict == [k \in {} |-> <<>>]
Truthy(d) == DOMAIN d # {}      \* a dict as a condition
Get(d, k, dflt) == IF k \in DOMAIN d THEN d[k] ELSE dflt
Put(d, k, v) == [x \in DOMAIN d \cup {k} |-> IF x = k THEN v ELSE d[x]]

-----------------------------------------------------------------------------
(* validate_isrc *)

IsrcAlpha  == 2     \* [A-Z]{2}
IsrcAlnum  == 3     \* [A-Z0-9]{3}
IsrcDigits == 7     \* [0-9]{7}

\* re.match of the pattern ^[A-Z]{2}[A-Z0-9]{3}[0-9]{7}$ : in Python the final
\* anchor matches at the end of the string and also just before a newline
\* that ends the string.
isrc_re_match(s) ==
    LET n == IsrcAlpha + IsrcAlnum + IsrcDigits
    IN  /\ \/ Len(s) = n
           \/ Len(s) = n + 1 /\ s[n + 1] = "\n"
        /\ \A i \in 1..n :
              IF i <= IsrcAlpha THEN s[i] \in Range(UpperAZ)
              ELSE IF i <= IsrcAlpha + IsrcAlnum THEN s[i] \in Range(UpperAZ) \cup Digit09
              ELSE s[i] \in Digit09

validate_isrc(isrc) ==
    IF Falsy(isrc) THEN FALSE
    ELSE isrc_re_match(str_upper(replace_hyphens(isrc)))

-----------------------------------------------------------------------------
(* Inputs of validate_isrc: well-formed codes and everything within        *)
(* MaxIsrcEdits single-character edits of one.                             *)

MaxIsrcEdits == 1

IsrcBases ==
    { <<"U","S","A","B","C","1","2","3","4","5","6","7">>,
      <<"g","b","-","x","9","z","-","2","4","-","0","0","0","0","1">> }

IsrcEditChars == {"Q", "k", "5", "-", "\n", " "}

OneEdit(s) ==
       { [s EXCEPT ![i] = c] : i \in 1..Len(s), c \in IsrcEditChars }
    \cup { SubSeq(s, 1, i) \o <<c>> \o SubSeq(s, i + 1, Len(s)) :
              i \in 0..Len(s), c \in IsrcEditChars }
    \cup { SubSeq(s, 1, i - 1) \o SubSeq(s, i + 1, Len(s)) : i \in 1..Len(s) }

RECURSIVE Edited(_)
Edited(n) ==
    IF n = 0 THEN IsrcBases
    ELSE LET prev == Edited(n - 1) IN prev \cup UNION { OneEdit(s) : s \in prev }

IsrcInputs == Edited(MaxIsrcEdits) \cup {NULL, <<>>}

\* what a script run reports: the button that triggered it, how the parse
\* went, whether apply_business_logic was entered, whether st.error was
\* called by parse_release_data, whether the form was submitted, the ISRC
\* widget's value in that run, and whether the portal tab was opened
NoRun == [trigger |-> "start", parse |-> "none", normalized |-> FALSE,
          error |-> FALSE, submitted |-> FALSE, isrc |-> <<>>, opened |-> FALSE]

UiIdle ==
    /\ parsed_data = EmptyDict /\ generated_script = EmptyDict /\ raw_text = <<>>
    /\ wdefault = EmptyDict /\ wvalue = EmptyDict /\ draft = EmptyDict
    /\ submit_disabled = TRUE /\ last = NoRun /\ runs = 0
NormIdle == data = Absent /\ once = Pending /\ twice = Pending
IsrcIdle == isrc_in = Absent /\ isrc_out = Pending

InitIsrc == UiIdle /\ NormIdle /\ isrc_in \in IsrcInputs /\ isrc_out = Pending

CallValidateIsrc ==
    /\ isrc_out = Pending
    /\ isrc_out' = <<validate_isrc(isrc_in)>>
    /\ UNCHANGED <<isrc_in, uiVars, normVars>>

NextIsrc == CallValidateIsrc

SpecIsrc == InitIsrc /\ [][NextIsrc]_vars

\* The shape the validator is documented to accept: after removing hyphens,
\* exactly 12 characters, 2 letters, 3 letters-or-digits, 7 digits, letters in
\* either case.
Letters == Range(UpperAZ) \cup Range(LowerAZ)
IsrcShape(s) ==
    /\ s # NULL
    /\ LET c == replace_hyphens(s)
       IN  /\ Len(c) = IsrcAlpha + IsrcAlnum + IsrcDigits
           /\ \A i \in 1..Len(c) :
                 IF i <= IsrcAlpha THEN c[i] \in Letters
                 ELSE IF i <= IsrcAlpha + IsrcAlnum THEN c[i] \in Letters \cup Digit09
                 ELSE c[i] \in Digit09

\* C4: validate_isrc(s) is true exactly when s, hyphens removed and case
\* ignored, is 2 letters, 3 letters-or-digits and 7 digits, 12 characters in
\* all; false for None, for "" and for every other string.
C4_ValidateIsrcExactlyShape ==
    isrc_out # Pending => (isrc_out[1] <=> IsrcShape(isrc_in))

-----------------------------------------------------------------------------
-----------------------------------------------------------------------------
(* pycountry, as far as the app uses it: a catalogue in a fixed order,     *)
(* countries.get(alpha_2=...) and countries.search_fuzzy(query).           *)

Countries ==
    << [alpha_2 |-> <<"U","S">>, name |-> <<"U","n","i","t","e","d"," ","S","t","a","t","e","s">>],
       [alpha_2 |-> <<"P","E">>, name |-> <<"P","e","r","u">>],
       [alpha_2 |-> <<"C","U">>, name |-> <<"C","u","b","a">>] >>

\* pycountry.countries.get(alpha_2=code): <<the country>>, or <<>> for None
countries_get(code) ==
    SelectSeq(Countries, LAMBDA c : c.alpha_2 = code)

\* pycountry.countries.search_fuzzy(query): the matches, exact names before
\* partial ones; <<>> stands for the LookupError it raises when there is none.
search_fuzzy(query) ==
    LET q       == str_lower(query)
        exact   == SelectSeq(Countries, LAMBDA c : str_lower(c.name) = q)
        partial == SelectSeq(Countries,
                      LAMBDA c : str_lower(c.name) # q /\ Contains(q, str_lower(c.name)))
    IN  exact \o partial

get_country_name(code) ==
    LET country == countries_get(str_upper(code))
    IN  IF Len(country) > 0 THEN country[1].name ELSE NULL

-----------------------------------------------------------------------------
(* apply_business_logic *)

ONErpm == <<"O","N","E","r","p","m">>
Yes    == <<"Y","e","s">>

\* a table in which one output is itself a key
genre_map_chained ==
    { <<<<"P","o","p","u","l","a","r">>, <<"C","u","m","b","i","a">>>>,
      <<<<"t","r","a","p","m","a","m","b","o">>, <<"U","r","b","a","n","o">>>>,
      <<<<"E","l","e","c","t","r","ó","n","i","c","a">>, <<"E","l","e","c","t","r","o","n","i","c">>>>,
      <<<<"C","u","m","b","i","a">>, <<"T","r","o","p","i","c","a","l">>>> }

genre_map ==
    { <<<<"P","o","p","u","l","a","r">>, <<"R","e","g","i","o","n","a","l"," ","M","e","x","i","c","a","n">>>>,
      <<<<"t","r","a","p","m","a","m","b","o">>, <<"U","r","b","a","n","o">>>>,
      <<<<"E","l","e","c","t","r","ó","n","i","c","a">>, <<"E","l","e","c","t","r","o","n","i","c">>>>,
      <<<<"C","u","m","b","i","a">>, <<"T","r","o","p","i","c","a","l">>>> }

\* genre_map.get(genre, genre)
genre_map_get(genre) ==
    IF \E p \in genre_map : p[1] = genre
    THEN (CHOOSE p \in genre_map : p[1] = genre)[2]
    ELSE genre

NewSingle == <<"N","e","w"," ","S","i","n","g","l","e">>
NewAlbum  == <<"N","e","w"," ","A","l","b","u","m">>
NewEP     == <<"N","e","w"," ","E","P">>

\* the substrings looked for, in the order of the tests: single + video,
\* album + video, ep + video
SinglePlusVideo == <<"s","i","n","g","l","e"," ","+"," ","v","i","d","e","o">>
AlbumPlusVideo  == <<"a","l","b","u","m"," ","+"," ","v","i","d","e","o">>
EpPlusVideo     == <<"e","p"," ","+"," ","v","i","d","e","o">>

\* the same mapping, but writing the stripped value back when no rule matches
release_type_rule_trimmed(d) ==
    LET rtype       == str_strip(Get(d, "release_type", <<>>))
        rtype_lower == str_lower(rtype)
    IN  IF Contains(SinglePlusVideo, rtype_lower) THEN Put(d, "release_type", NewSingle)
        ELSE IF Contains(AlbumPlusVideo, rtype_lower) THEN Put(d, "release_type", NewAlbum)
        ELSE IF Contains(EpPlusVideo, rtype_lower) THEN Put(d, "release_type", NewEP)
        ELSE IF rtype = <<>> THEN Put(d, "release_type", NewSingle)
        ELSE Put(d, "release_type", rtype)

\* lines 70-81; rtype is the stripped value, used for the tests only
release_type_rule(d) ==
    LET rtype       == str_strip(Get(d, "release_type", <<>>))
        rtype_lower == str_lower(rtype)
    IN  IF Contains(SinglePlusVideo, rtype_lower) THEN Put(d, "release_type", NewSingle)
        ELSE IF Contains(AlbumPlusVideo, rtype_lower) THEN Put(d, "release_type", NewAlbum)
        ELSE IF Contains(EpPlusVideo, rtype_lower) THEN Put(d, "release_type", NewEP)
        ELSE IF rtype = <<>> THEN Put(d, "release_type", NewSingle)
        ELSE d

\* the same resolution, but clearing the code too when the lookup fails
country_rule_clearing(d) ==
    LET cc == Get(d, "country_code", <<>>)
    IN  IF Falsy(cc) THEN d
        ELSE IF Len(cc) = 2
        THEN LET full_name == get_country_name(cc)
             IN  IF ~Falsy(full_name) THEN Put(d, "country_name", full_name)
                 ELSE Put(d, "country_name", <<>>)
        ELSE LET c == search_fuzzy(cc)
             IN  IF c = <<>> THEN Put(Put(d, "country_name", <<>>), "country_code", <<>>)
                 ELSE Put(Put(d, "country_name", c[1].name), "country_code", c[1].alpha_2)

\* lines 84-103
country_rule(d) ==
    LET cc == Get(d, "country_code", <<>>)
    IN  IF Falsy(cc) THEN d
        ELSE IF Len(cc) = 2
        THEN LET full_name == get_country_name(cc)
             IN  IF ~Falsy(full_name) THEN Put(d, "country_name", full_name)
                 ELSE Put(d, "country_name", <<>>)
        ELSE LET c == search_fuzzy(cc)
             IN  IF c = <<>> THEN Put(d, "country_name", <<>>)      \* except:
                 ELSE Put(Put(d, "country_name", c[1].name), "country_code", c[1].alpha_2)

\* defaults as fallbacks: set only where the key is missing
defaults_rule_if_missing(d) ==
    Put(Put(d, "label", Get(d, "label", <<"O","N","E","r","p","m">>)),
        "latin_audience", Get(d, "latin_audience", <<"Y","e","s">>))

\* lines 55-56
defaults_rule(d) == Put(Put(d, "label", ONErpm), "latin_audience", Yes)

genre_rule(d) == Put(d, "genre", genre_map_get(Get(d, "genre", <<>>)))

\* The dict is changed in place, so what was assigned before an exception
\* stays assigned: rec is the dict afterwards, raised tells whether the call
\* raised instead of returning rec.  None.strip() raises AttributeError.
apply_business_logic(d) ==
    LET d2 == genre_rule(defaults_rule(d))
    IN  IF Get(d2, "release_type", <<>>) = NULL
        THEN [rec |-> d2, raised |-> TRUE]
        ELSE [rec |-> country_rule(release_type_rule(d2)), raised |-> FALSE]


-----------------------------------------------------------------------------
(* Inputs of apply_business_logic: any subset of the keys it reads or      *)
(* writes, each present value a string or None.                            *)

MaxPad == 1     \* spaces put before and after a release type

RECURSIVE Spaces(_)
Spaces(n) == IF n = 0 THEN <<>> ELSE <<" ">> \o Spaces(n - 1)

ReleaseTypeCores ==
    { <<>>, <<"S","i","n","g","l","e"," ","+"," ","V","i","d","e","o">>, <<"A","L","B","U","M"," ","+"," ","V","I","D","E","O">>, <<"D","e","l","u","x","e"," ","E","p"," ","+"," ","V","i","d","e","o">>,
      <<"a","l","b","u","m"," ","+"," ","v","i","d","e","o",","," ","s","i","n","g","l","e"," ","+"," ","v","i","d","e","o">>, <<"R","e","m","i","x">>, <<"N","e","w"," ","S","i","n","g","l","e">>, <<"e","p","+","v","i","d","e","o">> }

ReleaseTypeInputs ==
    { Spaces(a) \o core \o Spaces(b) :
        a \in 0..MaxPad, b \in 0..MaxPad, core \in ReleaseTypeCores }
    \cup {NULL, Absent}

GenreInputs ==
    { Absent, NULL, <<>>, <<"P","o","p","u","l","a","r">>, <<"t","r","a","p","m","a","m","b","o">>, <<"E","l","e","c","t","r","ó","n","i","c","a">>, <<"C","u","m","b","i","a">>,
      <<"c","u","m","b","i","a">>, <<"R","o","c","k">> }

CountryCodeInputs ==
    { Absent, NULL, <<>>, <<"U","S">>, <<"p","e">>, <<"Z","Z">>, <<"P","e","r","u">>, <<"c","u","b","a">>,
      <<"U","n","i","t","e","d">>, <<"A","t","l","a","n","t","i","s">> }

CountryNameInputs == { Absent, <<"O","l","d"," ","N","a","m","e">> }

DefaultedInputs ==      \* <<label, latin_audience>>
    { <<Absent, Absent>>, <<<<"X">>, <<"N","o">>>> }

\* the dict with the keys whose value is not Absent
MakeDict(f) == [k \in {x \in DOMAIN f : f[x] # Absent} |-> f[k]]

InputRecords ==
    { MakeDict([genre |-> g, release_type |-> r, country_code |-> c,
                country_name |-> n, label |-> l[1], latin_audience |-> l[2]]) :
        g \in GenreInputs, r \in ReleaseTypeInputs, c \in CountryCodeInputs,
        n \in CountryNameInputs, l \in DefaultedInputs }

InitNorm ==
    /\ UiIdle /\ IsrcIdle
    /\ data \in InputRecords /\ once = Pending /\ twice = Pending

\* apply_business_logic(data)
ApplyOnce ==
    /\ once = Pending
    /\ once' = <<apply_business_logic(data)>>
    /\ UNCHANGED <<data, twice, uiVars, isrcVars>>

\* apply_business_logic again, on the dict the first call left
ApplyTwice ==
    /\ once # Pending /\ twice = Pending
    /\ twice' = <<apply_business_logic(once[1].rec)>>
    /\ UNCHANGED <<data, once, uiVars, isrcVars>>

NextNorm == ApplyOnce \/ ApplyTwice

SpecNorm == InitNorm /\ [][NextNorm]_vars

Has(d, k) == k \in DOMAIN d

\* C3: apply_business_logic never raises: for every record whose present
\* values are strings or None it returns the record.
C3_NormalizeNeverRaises ==
    once # Pending => ~once[1].raised

\* What C5 expects of release_type for the input string s.
C5_Expected(s, passthrough) ==
    LET t == str_strip(s)
        l == str_lower(t)
    IN  IF Contains(<<"s","i","n","g","l","e"," ","+"," ","v","i","d","e","o">>, l) THEN <<"N","e","w"," ","S","i","n","g","l","e">>
        ELSE IF Contains(<<"a","l","b","u","m"," ","+"," ","v","i","d","e","o">>, l) THEN <<"N","e","w"," ","A","l","b","u","m">>
        ELSE IF Contains(<<"e","p"," ","+"," ","v","i","d","e","o">>, l) THEN <<"N","e","w"," ","E","P">>
        ELSE IF t = <<>> THEN <<"N","e","w"," ","S","i","n","g","l","e">>
        ELSE passthrough

C5_Applies ==
    /\ once # Pending /\ ~once[1].raised
    /\ Has(data, "release_type") /\ data["release_type"] # NULL

\* C5 (as claimed): release_type ends as New Single / New Album / New EP by
\* the first substring rule that matches, New Single when the trimmed input
\* is empty, and otherwise the TRIMMED input t with its case preserved.
C5_ReleaseTypeTrimmedPassThrough ==
    C5_Applies =>
        once[1].rec["release_type"] =
            C5_Expected(data["release_type"], str_strip(data["release_type"]))

\* C5 (amended): the same, except that when no rule matches and the trimmed
\* input is not empty, release_type is left as the input s itself, untrimmed.
C5_ReleaseTypeUnchangedPassThrough ==
    C5_Applies =>
        once[1].rec["release_type"] =
            C5_Expected(data["release_type"], data["release_type"])

\* a padded release type that no rule matches went through the normaliser
C5_Witness ==
    /\ C5_Applies
    /\ data["release_type"] = <<" ","R","e","m","i","x"," ">>
    /\ once[1].rec["release_type"] = <<" ","R","e","m","i","x"," ">>

KnownAlpha2(c) == \E i \in DOMAIN Countries : Countries[i].alpha_2 = str_upper(c)
NameOfAlpha2(c) ==
    Countries[CHOOSE i \in DOMAIN Countries : Countries[i].alpha_2 = str_upper(c)].name

C6_Applies ==
    /\ once # Pending /\ ~once[1].raised
    /\ Has(data, "country_code") /\ ~Falsy(data["country_code"])

C6_Result == <<Get(once[1].rec, "country_code", Absent),
               Get(once[1].rec, "country_name", Absent)>>

C6_Expected(c, onFailure) ==
    IF Len(c) = 2
    THEN IF KnownAlpha2(c) THEN <<c, NameOfAlpha2(c)>> ELSE <<c, <<>> >>
    ELSE IF search_fuzzy(c) # <<>>
         THEN <<search_fuzzy(c)[1].alpha_2, search_fuzzy(c)[1].name>>
         ELSE onFailure

\* C6 (as claimed): a non-empty country_code c of 2 characters gives (c, full
\* name) or (c, ""); any other length gives the fuzzy match's (alpha-2, name),
\* or ("", "") when the lookup finds nothing or fails.
C6_CountryFailureClearsBoth ==
    C6_Applies => C6_Result = C6_Expected(data["country_code"], << <<>>, <<>> >>)

\* C6 (amended): the same, except that when the fuzzy lookup finds nothing
\* or fails the result is (c, ""): country_code keeps the input.
C6_CountryFailureKeepsCode ==
    C6_Applies => C6_Result = C6_Expected(data["country_code"], <<data["country_code"], <<>> >>)

\* a country phrase the catalogue does not know went through the normaliser
C6_Witness ==
    /\ C6_Applies
    /\ data["country_code"] = <<"A","t","l","a","n","t","i","s">>
    /\ Get(data, "country_name", Absent) = <<"O","l","d"," ","N","a","m","e">>
    /\ C6_Result = <<<<"A","t","l","a","n","t","i","s">>, <<>> >>

IdempotentFields == {"genre", "release_type", "label", "latin_audience"}

\* C7: a second apply_business_logic leaves genre, release_type, label and
\* latin_audience as the first one left them.
C7_NormalizeIdempotent ==
    twice # Pending =>
        \A k \in IdempotentFields :
            Get(twice[1].rec, k, Absent) = Get(once[1].rec, k, Absent)

\* a release type mapped by a substring rule, and a mapped genre, went through twice
C7_Witness ==
    /\ twice # Pending
    /\ Get(data, "release_type", Absent) = <<"S","i","n","g","l","e"," ","+"," ","V","i","d","e","o">>
    /\ Get(data, "genre", Absent) = <<"C","u","m","b","i","a">>
    /\ twice[1].rec["release_type"] = <<"N","e","w"," ","S","i","n","g","l","e">>
    /\ twice[1].rec["genre"] = <<"T","r","o","p","i","c","a","l">>

-----------------------------------------------------------------------------
(* parse_release_data: the generation call, clean_json_response, json.loads *)
(* and apply_business_logic.  A response text is a sequence of tokens: code *)
(* fences, whitespace, prose, and JSON values.                              *)

Tok(kind, value) == [kind |-> kind, value |-> value]
FenceJson == Tok("fence_json", EmptyDict)
Fence     == Tok("fence", EmptyDict)
Newline   == Tok("whitespace", EmptyDict)
Prose     == Tok("prose", EmptyDict)
JsonArray == Tok("array", EmptyDict)
JsonObject(d) == Tok("object", d)

\* both fence markers are substituted away, then the text is stripped
clean_json_response(response_text) ==
    LET text == SelectSeq(response_text, LAMBDA t : t.kind \notin {"fence_json", "fence"})
        keep == {i \in 1..Len(text) : text[i].kind # "whitespace"}
    IN  IF keep = {} THEN <<>>
        ELSE SubSeq(text, CHOOSE i \in keep : \A j \in keep : i <= j,
                          CHOOSE i \in keep : \A j \in keep : j <= i)

\* json.loads succeeds on exactly one JSON value
json_decodes(json_text) ==
    Len(json_text) = 1 /\ json_text[1].kind \in {"object", "array"}

\* response: [raises |-> the generation call raised, text |-> response.text].
\* The result: ok (a dict is returned, not None), rec (that dict), normalized
\* (apply_business_logic was entered), outcome.  Every exception ends in the
\* st.error of the except clause and a None.
parse_release_data(response) ==
    LET failed(outcome, entered) ==
            [ok |-> FALSE, rec |-> EmptyDict, normalized |-> entered,
             error |-> TRUE, outcome |-> outcome]
        json_text == clean_json_response(response.text)
    IN  IF response.raises THEN failed("call_failed", FALSE)
        ELSE IF ~json_decodes(json_text) THEN failed("decode_failed", FALSE)
        ELSE IF json_text[1].kind = "array"
             THEN failed("normalize_failed", TRUE)     \* a list takes no string key: TypeError
        ELSE LET r == apply_business_logic(json_text[1].value)
             IN  IF r.raised THEN failed("normalize_failed", TRUE)
                 ELSE [ok |-> TRUE, rec |-> r.rec, normalized |-> TRUE,
                       error |-> FALSE, outcome |-> "ok"]

\* the handler without its test: whatever was returned is stored
parse_button_store_always(pd, parsed) == parsed.rec

\* the Parse Data handler: parsed_data is assigned when parsed is truthy
parse_button_store(pd, parsed) ==
    IF parsed.ok /\ Truthy(parsed.rec) THEN parsed.rec ELSE pd

-----------------------------------------------------------------------------
(* The review form *)

WidgetKeys ==
    {"primary_artist", "title", "upc", "isrc", "label", "release_date",
     "country_input", "description", "genre", "release_type", "latin_audience"}

\* a string or None inside an f-string
format_value(x) == IF x = NULL THEN <<"N","o","n","e">> ELSE x

country_display(pd) ==
    LET c_code == Get(pd, "country_code", <<>>)
        c_name == Get(pd, "country_name", <<>>)
    IN  IF ~Falsy(c_name) THEN c_name \o <<" ","(">> \o format_value(c_code) \o <<")">>
        ELSE c_code

\* the value= of each text input
widget_defaults(pd) ==
    [k \in WidgetKeys |->
        CASE k = "isrc" ->
               IF Get(pd, "isrc", <<>>) = NULL THEN <<>> ELSE Get(pd, "isrc", <<>>)
          [] k = "label" -> Get(pd, "label", ONErpm)
          [] k = "latin_audience" -> Get(pd, "latin_audience", Yes)
          [] k = "country_input" -> country_display(pd)
          [] OTHER -> Get(pd, k, <<>>)]

\* lines 188-194
form_isrc_valid(isrc) ==
    IF Falsy(isrc) THEN FALSE
    ELSE IF ~validate_isrc(isrc) THEN FALSE
    ELSE TRUE

UpdatedKeys == (WidgetKeys \ {"country_input"}) \cup {"country_code"}

\* st.session_state.parsed_data.update({...}), lines 216-228
form_update(pd, v) ==
    [k \in DOMAIN pd \cup UpdatedKeys |->
        IF k = "country_code" THEN v["country_input"]
        ELSE IF k \in UpdatedKeys THEN v[k]
        ELSE pd[k]]

\* json.dumps of a string or None (ensure_ascii is on)
json_escape(c) ==
    CASE c = "\"" -> <<"\\", "\"">>
      [] c = "\\" -> <<"\\", "\\">>
      [] c = "\n" -> <<"\\", "n">>
      [] c = "\t" -> <<"\\", "t">>
      [] c = "ó"  -> <<"\\", "u", "0", "0", "f", "3">>
      [] OTHER    -> <<c>>

RECURSIVE json_escape_all(_)
json_escape_all(s) ==
    IF s = <<>> THEN <<>> ELSE json_escape(Head(s)) \o json_escape_all(Tail(s))

json_dumps(x) ==
    IF x = NULL THEN <<"n","u","l","l">> ELSE <<"\"">> \o json_escape_all(x) \o <<"\"">>

\* the values interpolated into js_script, by the name= of the selector
js_script(artist, title, upc, isrc, release_date, description, label, country_input) ==
    [Primary_Artist |-> json_dumps(artist), Title |-> json_dumps(title),
     UPC |-> json_dumps(upc), ISRC |-> json_dumps(isrc),
     Release_Date |-> json_dumps(release_date),
     Description |-> json_dumps(description), Label |-> json_dumps(label),
     Territory |-> json_dumps(country_input)]

\* what the handler of a submission leaves in generated_script
submit_script(v) ==
    js_script(v["primary_artist"], v["title"], v["upc"], v["isrc"],
              v["release_date"], v["description"], v["label"], v["country_input"])

-----------------------------------------------------------------------------
(* One run of the script, top to bottom.  Streamlit reruns it on every      *)
(* interaction outside a form and on the form's submit button.  A widget    *)
(* without key= is identified by its label and value=: while value= stays   *)
(* the same it keeps its state, and the values typed into a form reach the  *)
(* server only with the submit button; with a new value= it is a new widget *)
(* showing value=.  The submit button returns True in the run its click     *)
(* triggers, whatever disabled= that run passes.                            *)

ScriptRun(trigger, response) ==
    LET parsing == trigger = "parse" /\ ~Falsy(raw_text)
    IN  \E parsed \in {parse_release_data(response)} :
        \E pd1 \in {IF parsing THEN parse_button_store(parsed_data, parsed)
                    ELSE parsed_data} :
        \E dflt \in {widget_defaults(pd1)} :
        \E same \in {{k \in WidgetKeys : k \in DOMAIN wdefault /\ wdefault[k] = dflt[k]}} :
        \E v \in {[k \in WidgetKeys |->
                     IF k \in same
                     THEN (IF trigger = "submit" THEN draft[k] ELSE wvalue[k])
                     ELSE dflt[k]]} :
        LET render     == Truthy(pd1)                      \* line 171
            shown      == [k \in WidgetKeys |-> IF k \in same THEN draft[k] ELSE dflt[k]]
            isrc_valid == form_isrc_valid(v["isrc"])
            submitted  == render /\ trigger = "submit"     \* line 212
        IN  /\ runs' = runs + 1
            /\ parsed_data' = IF submitted THEN form_update(pd1, v) ELSE pd1
            /\ generated_script' = IF submitted THEN submit_script(v) ELSE generated_script
            /\ wdefault' = IF render THEN dflt ELSE EmptyDict
            /\ wvalue' = IF render THEN v ELSE EmptyDict
            /\ draft' = IF render THEN shown ELSE EmptyDict
            /\ submit_disabled' = IF render THEN ~isrc_valid ELSE TRUE
            /\ last' = [trigger |-> trigger,
                        parse |-> IF trigger # "parse" THEN "none"
                                  ELSE IF ~parsing THEN "warning" ELSE parsed.outcome,
                        normalized |-> parsing /\ parsed.normalized,
                        error |-> parsing /\ parsed.error,
                        submitted |-> submitted,
                        isrc |-> IF render THEN v["isrc"] ELSE <<>>,
                        opened |-> submitted]

-----------------------------------------------------------------------------
(* The session *)

MaxRuns == 5

Release1 ==
    [primary_artist |-> <<"A","n","a">>, title |-> <<"S","o","l">>, isrc |-> <<"U","S","A","B","C","1","2","3","4","5","6","7">>,
     country_code |-> <<"P","E">>, genre |-> <<"C","u","m","b","i","a">>,
     release_type |-> <<"S","i","n","g","l","e"," ","+"," ","V","i","d","e","o">>, label |-> <<"X">>]
Release2 ==
    [title |-> <<"M","a","r">>, isrc |-> NULL, country_code |-> NULL,
     release_type |-> <<"R","e","m","i","x">>, latin_audience |-> <<"N","o">>]
Release3 ==
    [title |-> <<"R","i","o">>, isrc |-> <<"g","b","-","x","9","z","-","2","4","-","0","0","0","0","1">>, country_code |-> <<"c","u","b","a">>,
     release_type |-> NULL]
Release4 ==
    [title |-> <<"O","l","a">>, isrc |-> <<"U","S","1","2">>, country_code |-> <<"A","t","l","a","n","t","i","s">>, label |-> NULL]

NoText == [raises |-> TRUE, text |-> <<>>]
Text(t) == [raises |-> FALSE, text |-> t]

Responses ==
    { NoText,
      Text(<<Prose>>),
      Text(<<Prose, Newline, JsonObject(Release1)>>),
      Text(<<JsonArray>>),
      Text(<<FenceJson, Newline, JsonObject(Release1), Newline, Fence>>),
      Text(<<JsonObject(Release2), Newline>>),
      Text(<<Fence, JsonObject(Release3), Fence>>),
      Text(<<JsonObject(Release4)>>) }

RawTexts == { <<>>, <<"x">> }

EditableKeys == {"isrc", "country_input", "title"}
EditValues(k) ==
    CASE k = "isrc" -> { <<>>, <<"U","S","1","2">>, <<"U","S","A","B","C","1","2","3","4","5","6","7">> }
      [] k = "country_input" -> { <<"C","U">> }
      [] k = "title" -> { <<"L","u","z">> }

Init ==
    /\ UiIdle /\ NormIdle /\ IsrcIdle

\* typing into the text area outside the form reruns the script
EditRawText ==
    /\ runs < MaxRuns
    /\ \E t \in RawTexts : t # raw_text /\ raw_text' = t
    /\ ScriptRun("rerun", NoText)
    /\ UNCHANGED <<normVars, isrcVars>>

\* the Parse Data button
ParseClick ==
    /\ runs < MaxRuns
    /\ \E response \in Responses : ScriptRun("parse", response)
    /\ UNCHANGED <<raw_text, normVars, isrcVars>>

\* typing into a field of the form: nothing is sent, nothing reruns
EditField ==
    /\ Truthy(draft)
    /\ \E k \in EditableKeys : \E val \in EditValues(k) :
          val # draft[k] /\ draft' = [draft EXCEPT ![k] = val]
    /\ UNCHANGED <<parsed_data, generated_script, raw_text, wdefault, wvalue,
                   submit_disabled, last, runs, normVars, isrcVars>>

\* the Generate Script button, which the browser lets the user click while
\* it shows it enabled
SubmitClick ==
    /\ runs < MaxRuns
    /\ Truthy(draft) /\ ~submit_disabled
    /\ ScriptRun("submit", NoText)
    /\ UNCHANGED <<raw_text, normVars, isrcVars>>

Next == EditRawText \/ ParseClick \/ EditField \/ SubmitClick

Spec == Init /\ [][Next]_vars

-----------------------------------------------------------------------------
(* The claims about the session *)

\* C1: a script is generated (generated_script written, portal tab opened)
\* only by a submission whose ISRC field value passes validate_isrc; a
\* submission with an empty or malformed ISRC generates none.
C1_ScriptOnlyForValidIsrc ==
    (last.submitted \/ last.opened) => validate_isrc(last.isrc)

\* C2: when the generation call raises or the cleaned response does not
\* decode, an error is shown, apply_business_logic is not entered and
\* parsed_data is the record it was before the click.
C2_FailedParseKeepsRecord ==
    [][ (last'.trigger = "parse" /\ last'.parse \in {"call_failed", "decode_failed"})
          => (last'.error /\ ~last'.normalized /\ parsed_data' = parsed_data) ]_vars

\* a parse failed to decode while a record was under review
C2_Witness ==
    /\ last.parse = "decode_failed"
    /\ Truthy(parsed_data) /\ parsed_data["title"] = <<"S","o","l">>

\* C8: the record a successful parse stores has label ONErpm and
\* latin_audience Yes, whatever the response held for them.
C8_ParsedRecordHasDefaults ==
    last.parse = "ok" =>
        /\ Get(parsed_data, "label", Absent) = ONErpm
        /\ Get(parsed_data, "latin_audience", Absent) = Yes

\* a response that gave another label was parsed and stored
C8_Witness ==
    /\ last.parse = "ok"
    /\ parsed_data["title"] = <<"S","o","l">>
    /\ parsed_data["label"] = ONErpm

RecordFields ==
    {"primary_artist", "title", "upc", "isrc", "label", "release_date",
     "country_code", "country_name", "description", "genre", "release_type",
     "latin_audience"}

\* C9: submitting the form as it was rendered, with no field edited, leaves
\* every field of parsed_data as it was, country_code and country_name
\* included.
C9_UneditedSubmitKeepsRecord ==
    [][ (last'.submitted /\ draft = widget_defaults(parsed_data))
          => \A k \in RecordFields :
                Get(parsed_data', k, <<>>) = Get(parsed_data, k, <<>>) ]_vars

\* the script a render of the record in parsed_data gives
script_of_record(pd) ==
    js_script(Get(pd, "primary_artist", <<>>), Get(pd, "title", <<>>),
              Get(pd, "upc", <<>>), Get(pd, "isrc", <<>>),
              Get(pd, "release_date", <<>>), Get(pd, "description", <<>>),
              Get(pd, "label", <<>>), Get(pd, "country_code", <<>>))

\* C10: whenever a generated script is displayed, it is the script of the
\* record now in parsed_data; none made from an earlier record stays on
\* display after a later successful parse.
C10_DisplayedScriptIsOfCurrentRecord ==
    Truthy(generated_script) => generated_script = script_of_record(parsed_data)

====
